---- MODULE Spec2Model ----
(***************************************************************************)
(* A model of src/cli/cli.js, the command-line front end of JSHint.        *)
(*                                                                         *)
(* Strings are sequences of one-character strings, so that the regular     *)
(* expressions, the globs and the path operations of the source are        *)
(* computed character by character.                                        *)
(*                                                                         *)
(* The module holds four specifications over the same variables:           *)
(*   SpecStrip  removeComments applied once and twice to a string;         *)
(*   SpecFind   findConfig and the recursion of findFile;                  *)
(*   SpecIgn    isIgnored on a path and a list of patterns;                *)
(*   Spec       interpret / run: collect, lint, the reporter, the exit.    *)
(***************************************************************************)
EXTENDS Integers, Sequences, FiniteSets, TLC

VARIABLES
    \* removeComments
    rcPc, rcIn, rcOnce, rcTwice,
    \* findConfig / findFile
    ffPc, ffCwd, ffHome, ffHasRc, ffDir, ffTrail, ffProj, ffResult,
    \* isIgnored
    igPc, igFp, igIsDir, igCwd, igPatterns, igResult,
    \* run: the options and the collect phase
    pc, optArgs, optIgnores, optExt, cStack, cTarget, files, fileTarget,
    visited, listed,
    \* interpret and run: the invocation, the heap, lint, the reporter, the exit
    entry, options, modLoads, cfgParses, ignoreFile, optConfig, optReporter,
    heap, cfgSnap0, lintIdx, results, data, engineCalls, mutated, readFailedAt,
    reporterCalls, runResult, flushed, exitCode, loadFailed

stripVars == <<rcPc, rcIn, rcOnce, rcTwice>>
findVars == <<ffPc, ffCwd, ffHome, ffHasRc, ffDir, ffTrail, ffProj, ffResult>>
ignVars == <<igPc, igFp, igIsDir, igCwd, igPatterns, igResult>>
collectVars == <<pc, optArgs, optIgnores, optExt, cStack, cTarget, files,
                 fileTarget, visited, listed>>
collectVarsButPc == <<optArgs, optIgnores, optExt, cStack, cTarget, files,
                      fileTarget, visited, listed>>
lintVars == <<entry, options, modLoads, cfgParses, ignoreFile, optConfig,
              optReporter, heap, cfgSnap0, lintIdx, results, data, engineCalls,
              mutated, readFailedAt, reporterCalls, runResult, flushed,
              exitCode, loadFailed>>
runVars == <<collectVars, lintVars>>
vars == <<stripVars, findVars, ignVars, runVars>>

\* null where a path is expected: no path is empty.
Null == <<>>

(***************************************************************************)
(* Strings                                                                 *)
(***************************************************************************)

RECURSIVE StringsOfLen(_, _)
StringsOfLen(alphabet, n) ==
    IF n = 0 THEN {<<>>}
    ELSE {<<c>> \o s : c \in alphabet, s \in StringsOfLen(alphabet, n - 1)}

StringsUpTo(alphabet, n) == UNION {StringsOfLen(alphabet, k) : k \in 0..n}

\* s has the two characters a, b at positions i, i+1.
IsAt(s, i, a, b) == i + 1 <= Len(s) /\ s[i] = a /\ s[i + 1] = b

(***************************************************************************)
(* removeComments (lines 61-68)                                            *)
(***************************************************************************)

\* The first j >= from with s[j..j+1] = "*/", or 0: where the lazy body
\* (?:(?!\*\/)[\s\S])* of the block-comment expression stops.
RECURSIVE BlockClose(_, _)
BlockClose(s, from) ==
    IF from + 1 > Len(s) THEN 0
    ELSE IF IsAt(s, from, "*", "/") THEN from
    ELSE BlockClose(s, from + 1)

\* str.replace(/\/\*(?:(?!\*\/)[\s\S])*\*\//g, ""): a left-to-right scan; a match
\* is removed and the scan goes on after it, otherwise the character is kept.
RECURSIVE StripBlockFrom(_, _)
StripBlockFrom(s, i) ==
    IF i > Len(s) THEN <<>>
    ELSE IF IsAt(s, i, "/", "*") /\ BlockClose(s, i + 2) # 0
         THEN StripBlockFrom(s, BlockClose(s, i + 2) + 2)
         ELSE <<s[i]>> \o StripBlockFrom(s, i + 1)

IsLineEnd(c) == c \in {"\n", "\r"}

\* The first j >= from with s[j] a line terminator, or Len(s) + 1.
RECURSIVE LineEnd(_, _)
LineEnd(s, from) ==
    IF from > Len(s) THEN from
    ELSE IF IsLineEnd(s[from]) THEN from
    ELSE LineEnd(s, from + 1)

\* str.replace(/\/\/[^\n\r]*/g, ""): from "//" to the end of the line, the line
\* terminator kept.
RECURSIVE StripLineFrom(_, _)
StripLineFrom(s, i) ==
    IF i > Len(s) THEN <<>>
    ELSE IF IsAt(s, i, "/", "/")
         THEN StripLineFrom(s, LineEnd(s, i + 2))
         ELSE <<s[i]>> \o StripLineFrom(s, i + 1)

\* str || "" leaves a string as it is (the empty string is "" either way); the
\* block comments go first, then the line comments.
removeComments(str) ==
    LET s1 == StripBlockFrom(str, 1)
    IN  StripLineFrom(s1, 1)

MaxStripLen == 8
StripAlphabet == {"/", "*", "\n"}

StripIdle ==
    /\ rcPc = "idle" /\ rcIn = <<>> /\ rcOnce = <<>> /\ rcTwice = <<>>

InitStrip ==
    /\ rcPc = "start"
    /\ rcIn \in StringsUpTo(StripAlphabet, MaxStripLen)
    /\ rcOnce = <<>>
    /\ rcTwice = <<>>

StripOnce ==
    /\ rcPc = "start"
    /\ rcOnce' = removeComments(rcIn)
    /\ rcPc' = "once"
    /\ UNCHANGED <<rcIn, rcTwice>>

StripTwice ==
    /\ rcPc = "once"
    /\ rcTwice' = removeComments(rcOnce)
    /\ rcPc' = "twice"
    /\ UNCHANGED <<rcIn, rcOnce>>

(***************************************************************************)
(* findFile (lines 133-148) and findConfig (lines 91-105)                  *)
(*                                                                         *)
(* A directory is the sequence of its path components, the root <<>>.      *)
(***************************************************************************)

MaxDepth == 3
DirNames == {"a", "b"}
Dirs == StringsUpTo(DirNames, MaxDepth)

Prefixes(d) == {SubSeq(d, 1, k) : k \in 0..Len(d)}

\* path.resolve(dir, rel) for an absolute dir and a relative path given by its
\* segments: ".." drops the last component and leaves the root as it is.
RECURSIVE Resolve(_, _)
Resolve(dir, segs) ==
    IF segs = <<>> THEN dir
    ELSE LET d == IF Head(segs) = ".."
                  THEN (IF dir = <<>> THEN dir ELSE SubSeq(dir, 1, Len(dir) - 1))
                  ELSE IF Head(segs) \in {".", ""} THEN dir
                  ELSE Append(dir, Head(segs))
         IN  Resolve(d, Tail(segs))

\* line 137: var parent = path.resolve(dir, "../../");
ParentOf(dir) == Resolve(dir, <<"..", "..", "">>)

\* shjs.test("-e", path.normalize(path.join(dir, name))) for name = ".jshintrc"
RcExists(dir) == dir \in ffHasRc

\* The path of the file `name` in dir.
RcPath(dir) == Append(dir, ".jshintrc")

\* A root test that never succeeds (the parent compared with null).
AtRootNever(dir, parent) == parent = <<"null">>

\* line 143: the recursion stops when the parent is the directory itself.
AtRoot(dir, parent) == dir = parent

FindIdle ==
    /\ ffPc = "idle" /\ ffCwd = <<>> /\ ffHome = <<>> /\ ffHasRc = {}
    /\ ffDir = <<>> /\ ffTrail = <<>> /\ ffProj = Null /\ ffResult = Null

InitFind ==
    /\ ffPc = "findFile"
    /\ ffCwd \in Dirs
    /\ ffHome \in Dirs
    /\ ffHasRc \in SUBSET (Prefixes(ffCwd) \cup {ffHome})
    /\ ffDir = ffCwd                 \* dir = dir || process.cwd()
    /\ ffTrail = <<>>
    /\ ffProj = Null
    /\ ffResult = Null

\* One call of findFile(name, dir): it returns the file's path, returns null at
\* the root, or calls itself on the parent.
FindFileCall ==
    /\ ffPc = "findFile"
    /\ ffTrail' = Append(ffTrail, ffDir)
    /\ LET parent == ParentOf(ffDir)
       IN  IF RcExists(ffDir)
           THEN /\ ffProj' = RcPath(ffDir)
                /\ ffPc' = "findConfig"
                /\ UNCHANGED ffDir
           ELSE IF AtRoot(ffDir, parent)
           THEN /\ ffProj' = Null
                /\ ffPc' = "findConfig"
                /\ UNCHANGED ffDir
           ELSE /\ ffDir' = parent
                /\ UNCHANGED <<ffProj, ffPc>>
    /\ UNCHANGED <<ffCwd, ffHome, ffHasRc, ffResult>>

\* findConfig after findFile has returned proj.
FindConfigReturn ==
    /\ ffPc = "findConfig"
    /\ ffResult' = IF ffProj # Null THEN ffProj
                   ELSE IF RcExists(ffHome) THEN RcPath(ffHome)
                   ELSE Null
    /\ ffPc' = "done"
    /\ UNCHANGED <<ffCwd, ffHome, ffHasRc, ffDir, ffTrail, ffProj>>

(***************************************************************************)
(* Paths as strings: path.resolve, and minimatch (line 182)                *)
(***************************************************************************)

UpperCase == {"A", "B"}
Lower(c) == IF c = "A" THEN "a" ELSE IF c = "B" THEN "b" ELSE c
LowerStr(s) == [i \in 1..Len(s) |-> Lower(s[i])]

\* The first i >= from with s[i] = "/", or 0.
RECURSIVE NextSlash(_, _)
NextSlash(s, from) ==
    IF from > Len(s) THEN 0
    ELSE IF s[from] = "/" THEN from
    ELSE NextSlash(s, from + 1)

\* The first i >= from with s[i] # "/", or Len(s) + 1.
RECURSIVE SkipSlashes(_, _)
SkipSlashes(s, from) ==
    IF from > Len(s) THEN from
    ELSE IF s[from] # "/" THEN from
    ELSE SkipSlashes(s, from + 1)

\* s.split(/\/+/): the parts between runs of slashes, the empty parts before a
\* leading and after a trailing run included.
RECURSIVE SplitSlash(_)
SplitSlash(s) ==
    LET i == NextSlash(s, 1)
    IN  IF i = 0 THEN <<s>>
        ELSE <<SubSeq(s, 1, i - 1)>>
                 \o SplitSlash(SubSeq(s, SkipSlashes(s, i), Len(s)))

RECURSIVE JoinSlash(_)
JoinSlash(segs) ==
    IF segs = <<>> THEN <<>>
    ELSE <<"/">> \o Head(segs) \o JoinSlash(Tail(segs))

\* The components of a path after normalisation: empty and "." parts dropped,
\* ".." dropping the component before it.
RECURSIVE NormalSegs(_, _)
NormalSegs(segs, acc) ==
    IF segs = <<>> THEN acc
    ELSE LET h == Head(segs)
         IN  IF h = <<>> \/ h = <<".">> THEN NormalSegs(Tail(segs), acc)
             ELSE IF h = <<".", ".">>
                  THEN NormalSegs(Tail(segs),
                         IF acc = <<>> THEN acc ELSE SubSeq(acc, 1, Len(acc) - 1))
             ELSE NormalSegs(Tail(segs), Append(acc, h))

\* path.resolve(fp) in the working directory cwd (an absolute path): the
\* absolute, normalised form of fp, without a trailing slash ("/" for the root).
PathResolve(cwd, fp) ==
    LET abs == IF fp # <<>> /\ fp[1] = "/" THEN fp ELSE cwd \o <<"/">> \o fp
        segs == NormalSegs(SplitSlash(abs), <<>>)
    IN  IF segs = <<>> THEN <<"/">> ELSE JoinSlash(segs)

\* A glob part matches a path part: "*" stands for any characters, the other
\* characters for themselves, letters compared without case ({ nocase: true }).
RECURSIVE GlobPart(_, _, _, _)
GlobPart(p, i, f, j) ==
    IF i > Len(p) THEN j > Len(f)
    ELSE IF p[i] = "*"
         THEN GlobPart(p, i + 1, f, j) \/ (j <= Len(f) /\ GlobPart(p, i, f, j + 1))
         ELSE j <= Len(f) /\ Lower(p[i]) = Lower(f[j]) /\ GlobPart(p, i + 1, f, j + 1)

HasMagic(p) == \E i \in 1..Len(p) : p[i] = "*"
IsGlobStar(p) == p = <<"*", "*">>
IsDotPart(f) == f # <<>> /\ f[1] = "."

\* One part of the pattern against one part of the path. A part without "*" is
\* compared as a string; a part with "*" is a regular expression that wants a
\* non-empty part and, when it starts with "*", one that does not start with ".".
PartHit(f, p) ==
    IF ~HasMagic(p) THEN LowerStr(f) = LowerStr(p)
    ELSE /\ f # <<>>
         /\ ~(p[1] = "*" /\ IsDotPart(f))
         /\ GlobPart(p, 1, f, 1)

\* minimatch's matchOne(file, pattern) without partial matching.
RECURSIVE MatchOne(_, _)
MatchOne(file, pat) ==
    IF file = <<>> /\ pat = <<>> THEN TRUE
    ELSE IF file = <<>> THEN FALSE
    ELSE IF pat = <<>> THEN Len(file) = 1 /\ file[1] = <<>>
    ELSE IF IsGlobStar(Head(pat))
         THEN IF Len(pat) = 1
              THEN \A k \in 1..Len(file) : ~IsDotPart(file[k])
              ELSE \E k \in 0..(Len(file) - 1) :
                      /\ \A j \in 1..k : ~IsDotPart(file[j])
                      /\ MatchOne(SubSeq(file, k + 1, Len(file)), Tail(pat))
    ELSE PartHit(Head(file), Head(pat)) /\ MatchOne(Tail(file), Tail(pat))

\* A glob that ignores the case option.
MinimatchCase(fp, ip) == fp = ip

\* minimatch(fp, ip, { nocase: true }) for patterns of letters, ".", "/" and "*".
Minimatch(fp, ip) ==
    IF ip = <<>> THEN fp = <<>>
    ELSE MatchOne(SplitSlash(fp), SplitSlash(ip))

(***************************************************************************)
(* isIgnored (lines 180-195)                                               *)
(***************************************************************************)

\* ip.match(/^[^\/]*\/?$/): no slash but, at most, a last one.
NoSeparator(ip) == \A i \in 1..(Len(ip) - 1) : ip[i] # "/"

\* new RegExp("^" + ip + ".*") for an ip of letters, ".", "/" and "*": a "*"
\* with nothing before it to repeat is a SyntaxError.
RegExpValid(ip) ==
    \A i \in 1..Len(ip) : ip[i] = "*" => (i > 1 /\ ip[i - 1] # "*")

\* The expression "^" + ip + ".*" matches s from position j on, ip read from
\* position i on: "." is any character but a line terminator, "x*" any number
\* of x, and the final ".*" takes whatever is left.
RECURSIVE RegExpFrom(_, _, _, _)
RegExpFrom(ip, i, s, j) ==
    IF i > Len(ip) THEN TRUE
    ELSE LET one == /\ j <= Len(s)
                    /\ \/ ip[i] = s[j]
                       \/ ip[i] = "." /\ ~IsLineEnd(s[j])
         IN  IF i + 1 <= Len(ip) /\ ip[i + 1] = "*"
             THEN RegExpFrom(ip, i + 2, s, j) \/ (one /\ RegExpFrom(ip, i, s, j + 1))
             ELSE one /\ RegExpFrom(ip, i + 1, s, j + 1)

\* The directory test matched against the absolute form of the path.
RegExpSubjectAbs(fp, cwd) == PathResolve(cwd, fp)

\* line 191: fp.match(...): the expression is applied to fp as it was given.
RegExpSubject(fp, cwd) == fp

\* The callback of patterns.some for one pattern ip: "true", "false" (it returns
\* undefined) or "throw" (the SyntaxError of new RegExp).
IgnoredBy(fp, ip, isDir, cwd) ==
    IF Minimatch(fp, ip) THEN "true"
    ELSE IF PathResolve(cwd, fp) = ip THEN "true"
    ELSE IF isDir /\ NoSeparator(ip)
         THEN IF ~RegExpValid(ip) THEN "throw"
              ELSE IF RegExpFrom(ip, 1, RegExpSubject(fp, cwd), 1) THEN "true"
              ELSE "false"
    ELSE "false"

\* patterns.some(...): the patterns in order, up to the first that is true.
RECURSIVE isIgnored(_, _, _, _)
isIgnored(fp, patterns, isDir, cwd) ==
    IF patterns = <<>> THEN "false"
    ELSE LET r == IgnoredBy(fp, Head(patterns), isDir, cwd)
         IN  IF r = "false" THEN isIgnored(fp, Tail(patterns), isDir, cwd) ELSE r

MaxPathLen == 2
MaxPatLen == 2
PathAlphabet == {"a", "A", "/"}
PatAlphabet == {"a", "/", "*"}
IgnPaths == StringsUpTo(PathAlphabet, MaxPathLen) \ {<<>>}
IgnPatterns == StringsUpTo(PatAlphabet, MaxPatLen)
\* The lists of no, one and two patterns.
IgnLists ==
    {<<>>} \cup {<<p>> : p \in IgnPatterns}
           \cup {<<p, q>> : p \in IgnPatterns, q \in IgnPatterns}
IgnCwds == {<<"/">>, <<"/", "a">>}

IgnIdle ==
    /\ igPc = "idle" /\ igFp = <<>> /\ igIsDir = FALSE /\ igCwd = <<>>
    /\ igPatterns = <<>> /\ igResult = "none"

InitIgn ==
    /\ igPc = "start"
    /\ igFp \in IgnPaths
    /\ igIsDir \in BOOLEAN
    /\ igCwd \in IgnCwds
    /\ igPatterns \in IgnLists
    /\ igResult = "none"

IsIgnoredCall ==
    /\ igPc = "start"
    /\ igResult' = isIgnored(igFp, igPatterns, igIsDir, igCwd)
    /\ igPc' = "done"
    /\ UNCHANGED <<igFp, igIsDir, igCwd, igPatterns>>

(***************************************************************************)
(* The file system that run works on: the working directory /w holds       *)
(*   c.js   d/a.js   d/e/b.js   d/t.ts                                     *)
(***************************************************************************)

Slash(a, b) == a \o <<"/">> \o b

W == <<"/", "w">>
NmA == <<"a", ".", "j", "s">>
NmB == <<"b", ".", "j", "s">>
NmC == <<"c", ".", "j", "s">>
NmD == <<"d">>
NmE == <<"e">>
NmT == <<"t", ".", "t", "s">>
DirD == Slash(W, NmD)
DirE == Slash(DirD, NmE)
FsDirs == {W, DirD, DirE}
FsFiles == {Slash(W, NmC), Slash(DirD, NmA), Slash(DirD, NmT), Slash(DirE, NmB)}

\* shjs.test("-d", fp)
IsDir(fp) == PathResolve(W, fp) \in FsDirs

\* shjs.ls(fp): the names in the directory, sorted.
Ls(fp) ==
    LET abs == PathResolve(W, fp)
    IN  IF abs = W THEN <<NmC, NmD>>
        ELSE IF abs = DirD THEN <<NmA, NmE, NmT>>
        ELSE IF abs = DirE THEN <<NmB>>
        ELSE <<>>

\* path.join(a, b): a + "/" + b normalised, relative when a is.
PathJoin(a, b) ==
    LET segs == NormalSegs(SplitSlash(Slash(a, b)), <<>>)
    IN  IF a # <<>> /\ a[1] = "/"
        THEN (IF segs = <<>> THEN <<"/">> ELSE JoinSlash(segs))
        ELSE (IF segs = <<>> THEN <<".">> ELSE Head(segs) \o JoinSlash(Tail(segs)))

(***************************************************************************)
(* The extension filter of run (lines 289-291) and collect (lines 206-222) *)
(***************************************************************************)

\* The first i >= from with s[i] = ",", or 0.
RECURSIVE NextComma(_, _)
NextComma(s, from) ==
    IF from > Len(s) THEN 0
    ELSE IF s[from] = "," THEN from
    ELSE NextComma(s, from + 1)

\* The parts of s between its commas.
RECURSIVE CommaParts(_)
CommaParts(s) ==
    LET i == NextComma(s, 1)
    IN  IF i = 0 THEN {s}
        ELSE {SubSeq(s, 1, i - 1)} \cup CommaParts(SubSeq(s, i + 1, Len(s)))

\* .replace(/[\. ]/g, "")
RECURSIVE DropDotsSpaces(_)
DropDotsSpaces(s) ==
    IF s = <<>> THEN <<>>
    ELSE IF Head(s) \in {".", " "} THEN DropDotsSpaces(Tail(s))
    ELSE <<Head(s)>> \o DropDotsSpaces(Tail(s))

\* The alternatives of "\\.(js" + ... + ")$" for opts.extensions = ext.
ExtAlternatives(ext) ==
    IF ext = <<>> THEN {<<"j", "s">>}
    ELSE {<<"j", "s">>} \cup {DropDotsSpaces(p) : p \in CommaParts(ext)}

EndsWith(s, suf) ==
    Len(suf) <= Len(s) /\ SubSeq(s, Len(s) - Len(suf) + 1, Len(s)) = suf

\* fp.match(ext) for extensions of letters.
ExtMatch(fp, ext) == \E alt \in ExtAlternatives(ext) : EndsWith(fp, <<".">> \o alt)

\* An ignore test that lets directories through.
CollectSkipsFilesOnly(fp, ignores) ==
    /\ ignores.defined
    /\ ~IsDir(fp)
    /\ isIgnored(fp, ignores.list, IsDir(fp), W) = "true"

\* line 207: ignores && isIgnored(fp, ignores)
CollectSkips(fp, ignores) ==
    ignores.defined /\ isIgnored(fp, ignores.list, IsDir(fp), W) = "true"

\* isIgnored throws in collect: nothing catches it.
CollectThrows(fp, ignores) ==
    ignores.defined /\ isIgnored(fp, ignores.list, IsDir(fp), W) = "throw"

NoIgnores == [defined |-> FALSE, list |-> <<>>]
Ignores(list) == [defined |-> TRUE, list |-> list]

\* The calls of collect that run's forEach and the recursion still have to make:
\* the calls on the stack, then the targets from cTarget on.
CollectPending == cStack # <<>> \/ cTarget <= Len(optArgs)

\* files.forEach / the reporter: what follows the last call of collect.
AfterCollect(nFiles) == IF nFiles = 0 THEN "report" ELSE "lint"

\* One call collect(fp, files, ignores, ext): the next one of the recursion, or
\* the one of the next target.
CollectCall ==
    /\ pc = "collect"
    /\ CollectPending
    /\ LET fromStack == cStack # <<>>
           call == IF fromStack THEN Head(cStack)
                   ELSE [fp |-> optArgs[cTarget], t |-> cTarget]
           rest == IF fromStack THEN Tail(cStack) ELSE <<>>
           nextTarget == IF fromStack THEN cTarget ELSE cTarget + 1
           fp == call.fp
           names == Ls(fp)
           children == [i \in 1..Len(names) |->
                           [fp |-> PathJoin(fp, names[i]), t |-> call.t]]
       IN  /\ cTarget' = nextTarget
           /\ visited' = visited \cup {call}
           /\ IF CollectThrows(fp, optIgnores)
              THEN /\ pc' = "uncaught"
                   /\ cStack' = rest
                   /\ UNCHANGED <<files, fileTarget, listed>>
              ELSE /\ IF CollectSkips(fp, optIgnores)
                      THEN /\ cStack' = rest
                           /\ UNCHANGED <<files, fileTarget, listed>>
                      ELSE IF IsDir(fp)
                      THEN /\ cStack' = children \o rest
                           /\ listed' = listed \cup {call}
                           /\ UNCHANGED <<files, fileTarget>>
                      ELSE /\ cStack' = rest
                           /\ files' = IF ExtMatch(fp, optExt)
                                       THEN Append(files, fp) ELSE files
                           /\ fileTarget' = IF ExtMatch(fp, optExt)
                                            THEN Append(fileTarget, call.t)
                                            ELSE fileTarget
                           /\ UNCHANGED listed
                   /\ pc' = IF cStack' # <<>> \/ nextTarget <= Len(optArgs)
                            THEN "collect" ELSE AfterCollect(Len(files'))
    /\ UNCHANGED <<optArgs, optIgnores, optExt>>
    /\ UNCHANGED lintVars

\* The targets and the ignore lists collect is tried on.
CollectTargets == {NmD, Slash(NmD, NmE), NmC, <<".">>, Append(NmD, "/"),
                   Slash(Slash(NmD, NmE), NmB)}
CollectArgs == {<<>>} \cup {<<a>> : a \in CollectTargets}
                      \cup {<<a, b>> : a \in {NmD, NmC}, b \in CollectTargets}
CollectPatterns == {DirD, DirE, NmD, NmE, <<"D", "/">>, <<"*", ".", "j", "s">>,
                    Slash(NmD, <<"*", ".", "j", "s">>), <<"*", "*">>,
                    <<"*">>, Slash(DirD, NmA), <<"d", "*">>}
CollectIgnores ==
    {NoIgnores, Ignores(<<>>)}
        \cup {Ignores(<<p>>) : p \in CollectPatterns}
        \cup {Ignores(<<p, q>>) : p \in {DirE, <<"*">>},  q \in CollectPatterns}
CollectExts == {<<>>, <<".", "t", "s">>}

RunIdle ==
    /\ pc = "idle" /\ optArgs = <<>> /\ optIgnores = NoIgnores /\ optExt = <<>>
    /\ cStack = <<>> /\ cTarget = 1 /\ files = <<>> /\ fileTarget = <<>>
    /\ visited = {} /\ listed = {}

\* run(opts) at its first statement, for the collect phase alone.
InitCollect ==
    /\ optArgs \in CollectArgs
    /\ optIgnores \in CollectIgnores
    /\ optExt \in CollectExts
    /\ pc = IF optArgs = <<>> THEN "report" ELSE "collect"
    /\ cStack = <<>> /\ cTarget = 1 /\ files = <<>> /\ fileTarget = <<>>
    /\ visited = {} /\ listed = {}

(***************************************************************************)
(* Objects: the configuration is an object on a heap of objects, so that   *)
(* a copy and the object it was made from are different things. A value is *)
(* a string: a primitive ("true", "false", "null", "0", "", "undefined")   *)
(* or the name of an object. Objects nest one level deep.                  *)
(***************************************************************************)

IdOrder == <<"o1", "o2", "o3", "o4", "o5", "o6">>
ObjIds == {IdOrder[i] : i \in 1..Len(IdOrder)}
KeyOrder == <<"undef", "maxlen", "predef", "globals", "x", "y">>

EmptyObj == [k \in {} |-> ""]
EmptyHeap == [o \in {} |-> EmptyObj]

\* The first object name that h does not use.
Fresh(h) == IdOrder[CHOOSE i \in 1..Len(IdOrder) :
                      /\ IdOrder[i] \notin DOMAIN h
                      /\ \A j \in 1..(i - 1) : IdOrder[j] \in DOMAIN h]

IsObject(h, v) == v \in DOMAIN h

\* What if (v) takes as true.
Truthy(v) == v \notin {"false", "null", "0", "", "undefined"}

DeleteKey(o, k) == [x \in DOMAIN o \ {k} |-> o[x]]
SetKey(o, k, v) == [x \in DOMAIN o \cup {k} |-> IF x = k THEN v ELSE o[x]]

\* JSON.parse(JSON.stringify(o)) for an object of primitives: a key whose value
\* is undefined is left out.
JSONFlat(o) == [k \in {x \in DOMAIN o : o[x] # "undefined"} |-> o[k]]

\* The fields of src copied into obj, key by key, a nested object into a new
\* object of the heap.
RECURSIVE CopyFields(_, _, _, _)
CopyFields(h, src, ks, obj) ==
    IF ks = <<>> THEN [heap |-> h, obj |-> obj]
    ELSE LET k == Head(ks)
         IN  IF k \notin DOMAIN src \/ src[k] = "undefined"
             THEN CopyFields(h, src, Tail(ks), obj)
             ELSE IF IsObject(h, src[k])
             THEN LET id == Fresh(h)
                  IN  CopyFields(h @@ (id :> JSONFlat(h[src[k]])), src, Tail(ks),
                                 SetKey(obj, k, id))
             ELSE CopyFields(h, src, Tail(ks), SetKey(obj, k, src[k]))

\* No copy: the object itself.
JSONCopyNone(h, r) == [heap |-> h, ref |-> r]

\* line 238: config = JSON.parse(JSON.stringify(config)): a new object, and new
\* objects for the objects in it.
JSONCopy(h, r) ==
    LET top == Fresh(h)
        c == CopyFields(h @@ (top :> EmptyObj), h[r], KeyOrder, EmptyObj)
    IN  [heap |-> [c.heap EXCEPT ![top] = c.obj], ref |-> top]

\* The value v, an object written out: <<primitive or "object", its fields>>.
SnapVal(h, v) ==
    IF IsObject(h, v) THEN <<"object", {<<k, h[v][k]>> : k \in DOMAIN h[v]}>>
    ELSE <<v, {}>>

\* The object r (or "undefined") written out, nested objects included.
Snap(h, r) ==
    IF ~IsObject(h, r) THEN {<<"", <<r, {}>>>>}
    ELSE {<<k, SnapVal(h, h[r][k])>> : k \in DOMAIN h[r]}

\* The configurations run is given.
CfgUndefined == [heap |-> EmptyHeap, ref |-> "undefined"]
CfgEmpty == [heap |-> ("o1" :> EmptyObj), ref |-> "o1"]
CfgGlobalsObj ==
    [heap |-> ("o1" :> (("undef" :> "true") @@ ("globals" :> "o2")))
                @@ ("o2" :> ("x" :> "true")),
     ref |-> "o1"]
CfgGlobalsFalse ==
    [heap |-> ("o1" :> (("undef" :> "true") @@ ("globals" :> "false"))),
     ref |-> "o1"]
CfgGlobalsZero == [heap |-> ("o1" :> ("globals" :> "0")), ref |-> "o1"]
CfgUndefinedValue ==
    [heap |-> ("o1" :> (("undef" :> "true") @@ ("maxlen" :> "undefined"))),
     ref |-> "o1"]

(***************************************************************************)
(* The engine (JSHINT, line 7) and the reporters (line 8) are not of this  *)
(* file: the engine answers anything and may change the objects it is      *)
(* given.                                                                  *)
(***************************************************************************)

MaxErrors == 1
ErrorLists == StringsUpTo({"err", "null"}, MaxErrors)

NoMutation == [op |-> "none", key |-> "", val |-> ""]
EngineMutations ==
    {NoMutation,
     [op |-> "set", key |-> "undef", val |-> "false"],
     [op |-> "set", key |-> "globals", val |-> "true"],
     [op |-> "delete", key |-> "undef", val |-> ""],
     [op |-> "gset", key |-> "x", val |-> "false"]}

\* The heap after the engine did m to the configuration c and the globals g it
\* was called with.
Mutate(h, c, g, m) ==
    IF m.op = "set" THEN [h EXCEPT ![c] = SetKey(h[c], m.key, m.val)]
    ELSE IF m.op = "delete" THEN [h EXCEPT ![c] = DeleteKey(h[c], m.key)]
    ELSE IF m.op = "gset" /\ IsObject(h, g)
         THEN [h EXCEPT ![g] = SetKey(h[g], m.key, m.val)]
    ELSE h

\* shjs.cat(file): c.js starts with a byte order mark.
FileText(fp) ==
    IF PathResolve(W, fp) = Slash(W, NmC) THEN <<"BOM", "v", "a", "r">>
    ELSE <<"v", "a", "r">>

\* line 248: buffer.replace(/^\uFEFF/, "")
StripBom(buf) == IF buf # <<>> /\ buf[1] = "BOM" THEN Tail(buf) ELSE buf

\* lines 256-260: one finding for every error that is not null.
RECURSIVE Findings(_, _)
Findings(file, errs) ==
    IF errs = <<>> THEN <<>>
    ELSE IF Head(errs) = "null" THEN Findings(file, Tail(errs))
    ELSE <<[file |-> file, error |-> Head(errs)]>> \o Findings(file, Tail(errs))

(***************************************************************************)
(* lint (lines 232-269) and run (lines 285-304)                            *)
(***************************************************************************)

\* process.exit(status) after a failed read goes on with the next file instead.
ReadFailureSkips(status) == [pc |-> "lint", code |-> -1]

\* lines 243-244: cli.error(...); process.exit(1): the process ends.
ReadFailure(status) == [pc |-> "exited", code |-> status]

\* The reporter is called after the first file.
LintDoneEarly(linted, nFiles) == linted >= 1

\* line 297: files.forEach has called lint for every file.
LintDone(linted, nFiles) == linted >= nFiles

\* line 301: opts.reporter || defReporter
ReporterOf(r) == IF Truthy(r) THEN r ELSE "default"

Lint ==
    /\ pc = "lint"
    /\ lintIdx <= Len(files)
    /\ LET file == files[lintIdx]
           \* config = config || {}
           base == IF IsObject(heap, optConfig) THEN [heap |-> heap, ref |-> optConfig]
                   ELSE [heap |-> heap @@ (Fresh(heap) :> EmptyObj), ref |-> Fresh(heap)]
       IN  \E cp \in {JSONCopy(base.heap, base.ref)} :
           LET cobj == cp.heap[cp.ref]
               \* if (config.globals)
               extract == "globals" \in DOMAIN cobj /\ Truthy(cobj["globals"])
               globals == IF extract THEN cobj["globals"] ELSE "undefined"
           IN  \E h2 \in {IF extract
                          THEN [cp.heap EXCEPT ![cp.ref] = DeleteKey(cobj, "globals")]
                          ELSE cp.heap} :
               \E call \in {[file |-> file,
                             buffer |-> StripBom(FileText(file)),
                             config |-> Snap(h2, cp.ref),
                             globals |-> SnapVal(h2, globals)]} :
               \E readable \in BOOLEAN :
                 IF ~readable
                 THEN LET stop == ReadFailure(1)
                      IN  /\ readFailedAt' = lintIdx
                          /\ lintIdx' = lintIdx + 1
                          /\ pc' = IF stop.pc # "lint" THEN stop.pc
                                   ELSE IF LintDone(lintIdx, Len(files)) THEN "report"
                                   ELSE "lint"
                          /\ exitCode' = stop.code
                          /\ UNCHANGED <<heap, results, data, engineCalls, mutated>>
                 ELSE \E ok \in BOOLEAN :
                      \E errs \in IF ok THEN {<<>>} ELSE ErrorLists :
                      \E hasData \in BOOLEAN, m \in EngineMutations :
                        /\ engineCalls' = Append(engineCalls, call)
                        /\ mutated' = (mutated \/ m # NoMutation)
                        /\ heap' = [o \in DOMAIN heap |->
                                       Mutate(h2, cp.ref, globals, m)[o]]
                        /\ results' = IF ok THEN results
                                      ELSE results \o Findings(file, errs)
                        /\ data' = IF hasData THEN Append(data, [file |-> file])
                                   ELSE data
                        /\ lintIdx' = lintIdx + 1
                        /\ pc' = IF LintDone(lintIdx, Len(files)) THEN "report"
                                 ELSE "lint"
                        /\ UNCHANGED <<readFailedAt, exitCode>>
    /\ UNCHANGED <<entry, options, modLoads, cfgParses, ignoreFile, optConfig,
                   optReporter, cfgSnap0, reporterCalls, runResult, flushed,
                   loadFailed>>
    /\ UNCHANGED collectVarsButPc

\* lines 301-303: the reporter, and the result of run.
Report ==
    /\ pc = "report"
    /\ reporterCalls' = Append(reporterCalls,
                               [fn |-> ReporterOf(optReporter),
                                results |-> results,
                                data |-> data,
                                unlinted |-> Len(files) - (lintIdx - 1),
                                pending |-> CollectPending])
    /\ runResult' = IF Len(results) = 0 THEN "true" ELSE "false"
    /\ pc' = IF entry = "interpret" THEN "flush" ELSE "returned"
    /\ UNCHANGED <<entry, options, modLoads, cfgParses, ignoreFile, optConfig,
                   optReporter, heap, cfgSnap0, lintIdx, results, data,
                   engineCalls, mutated, readFailedAt, flushed, exitCode,
                   loadFailed>>
    /\ UNCHANGED collectVarsButPc

(***************************************************************************)
(* loadIgnores (lines 156-170), loadReporter (lines 114-120) and interpret *)
(* (lines 312-377)                                                         *)
(***************************************************************************)

IsSpace(c) == c \in {" ", "\t", "\r"}

RECURSIVE TrimLeft(_)
TrimLeft(s) == IF s # <<>> /\ IsSpace(Head(s)) THEN TrimLeft(Tail(s)) ELSE s

RECURSIVE TrimRight(_)
TrimRight(s) ==
    IF s # <<>> /\ IsSpace(s[Len(s)]) THEN TrimRight(SubSeq(s, 1, Len(s) - 1)) ELSE s

Trim(s) == TrimRight(TrimLeft(s))

\* The first i >= from with s[i] = "\n", or 0.
RECURSIVE NextNewline(_, _)
NextNewline(s, from) ==
    IF from > Len(s) THEN 0
    ELSE IF s[from] = "\n" THEN from
    ELSE NextNewline(s, from + 1)

\* s.split("\n")
RECURSIVE SplitLines(_)
SplitLines(s) ==
    LET i == NextNewline(s, 1)
    IN  IF i = 0 THEN <<s>>
        ELSE <<SubSeq(s, 1, i - 1)>> \o SplitLines(SubSeq(s, i + 1, Len(s)))

NonBlank(line) == Trim(line) # <<>>

\* loadIgnores for the .jshintignore that findFile found (f.found) in f.dir.
loadIgnores(f) ==
    IF ~f.found THEN NoIgnores
    ELSE LET lines == SelectSeq(SplitLines(f.text), NonBlank)
         IN  Ignores([i \in 1..Len(lines) |-> PathResolve(f.dir, Trim(lines[i]))])

\* lines 322-343: the reporter module that the options name, "undefined" when
\* they name none.
ReporterPath(o) ==
    IF o.reporter = "jslint" \/ o.jslint THEN "../reporters/jslint_xml.js"
    ELSE IF o.reporter = "checkstyle" \/ o.checkstyle
         THEN "../reporters/checkstyle.js"
    ELSE IF o.nonErrors THEN "../reporters/non_error.js"
    ELSE IF o.reporter # "undefined" THEN "/w/" \o o.reporter
    ELSE "undefined"

\* loadReporter(fp): null when require throws, else the module's reporter
\* (undefined when it exports none).
loadReporter(fp, loads) ==
    IF loads = "throws" THEN "null"
    ELSE IF loads = "noexport" THEN "undefined"
    ELSE fp

\* Exit with 1 when there are findings.
ExitStatusOne(passed) == IF passed THEN 0 ELSE 1

\* line 366: process.exit(passed ? 0 : 2)
ExitStatus(passed) == IF passed THEN 0 ELSE 2

\* line 285: what run does first for its targets.
RunStart(args) == IF args = <<>> THEN AfterCollect(0) ELSE "collect"

\* interpret up to its call of run.
Interpret ==
    /\ pc = "interpret"
    /\ IF ~cfgParses
       THEN \* loadConfig: JSON.parse throws, and nothing catches it
            /\ pc' = "uncaught"
            /\ UNCHANGED <<optReporter, optIgnores, loadFailed, exitCode>>
       ELSE LET fp == ReporterPath(options)
                reporter == IF Truthy(fp) THEN loadReporter(fp, modLoads)
                            ELSE "undefined"
            IN  IF Truthy(fp) /\ reporter = "null"
                THEN /\ loadFailed' = TRUE
                     /\ exitCode' = 1
                     /\ pc' = "exited"
                     /\ UNCHANGED <<optReporter, optIgnores>>
                ELSE /\ optReporter' = reporter
                     /\ optIgnores' = loadIgnores(ignoreFile)
                     /\ pc' = RunStart(optArgs)
                     /\ UNCHANGED <<loadFailed, exitCode>>
    /\ UNCHANGED <<entry, options, modLoads, cfgParses, ignoreFile, optConfig,
                   heap, cfgSnap0, lintIdx, results, data, engineCalls, mutated,
                   readFailedAt, reporterCalls, runResult, flushed>>
    /\ UNCHANGED <<optArgs, optExt, cStack, cTarget, files, fileTarget, visited,
                   listed>>

\* lines 368-376: process.stdout.flush() returns true or false, or throws.
Flush ==
    /\ pc = "flush"
    /\ \E r \in {"true", "false", "throw"} :
         /\ flushed' = r
         /\ IF r = "false"
            THEN pc' = "draining" /\ UNCHANGED exitCode
            ELSE pc' = "exited" /\ exitCode' = ExitStatus(runResult = "true")
    /\ UNCHANGED <<entry, options, modLoads, cfgParses, ignoreFile, optConfig,
                   optReporter, heap, cfgSnap0, lintIdx, results, data,
                   engineCalls, mutated, readFailedAt, reporterCalls, runResult,
                   loadFailed>>
    /\ UNCHANGED collectVarsButPc

\* line 370: the "drain" event calls exit.
Drain ==
    /\ pc = "draining"
    /\ pc' = "exited"
    /\ exitCode' = ExitStatus(runResult = "true")
    /\ UNCHANGED <<entry, options, modLoads, cfgParses, ignoreFile, optConfig,
                   optReporter, heap, cfgSnap0, lintIdx, results, data,
                   engineCalls, mutated, readFailedAt, reporterCalls, runResult,
                   flushed, loadFailed>>
    /\ UNCHANGED collectVarsButPc

\* The command lines and the calls of run that the model starts from.
NoOptions ==
    [reporter |-> "undefined", jslint |-> FALSE, checkstyle |-> FALSE,
     nonErrors |-> FALSE]
OptionPool ==
    {NoOptions,
     [NoOptions EXCEPT !.reporter = "jslint"],
     [NoOptions EXCEPT !.reporter = "checkstyle", !.jslint = TRUE],
     [NoOptions EXCEPT !.checkstyle = TRUE],
     [NoOptions EXCEPT !.nonErrors = TRUE],
     [NoOptions EXCEPT !.reporter = "custom"]}
ModuleLoads == {"ok", "throws", "noexport"}
NoIgnoreFile == [found |-> FALSE, dir |-> W, text |-> <<>>]
IgnoreFiles ==
    {NoIgnoreFile,
     [found |-> TRUE, dir |-> W,
      text |-> <<" ", "d", "/", "e", "\n", " ", "\n", "*", ".", "t", "s">>]}
RunTargets == {[args |-> <<NmD>>, ext |-> <<>>],
               [args |-> <<NmC, NmD>>, ext |-> <<"t", "x">>]}
RunIgnores == {NoIgnores, Ignores(<<DirE>>)}
InterpretConfigs == {CfgEmpty, CfgGlobalsObj, CfgGlobalsFalse}
RunConfigs == {CfgUndefined, CfgGlobalsObj, CfgGlobalsZero, CfgUndefinedValue}

Invocations ==
    {v \in [entry : {"interpret"}, options : OptionPool, modLoads : ModuleLoads,
            cfgParses : BOOLEAN, ignoreFile : IgnoreFiles,
            reporter : {"undefined"}, ignores : {NoIgnores},
            cfg : InterpretConfigs, target : RunTargets] :
        /\ ~Truthy(ReporterPath(v.options)) => v.modLoads = "ok"
        /\ ~v.cfgParses => /\ v.modLoads = "ok"
                           /\ v.ignoreFile = NoIgnoreFile
                           /\ v.cfg = CfgEmpty}
    \cup
    [entry : {"run"}, options : {NoOptions}, modLoads : {"ok"},
     cfgParses : {TRUE}, ignoreFile : {NoIgnoreFile},
     reporter : {"undefined", "custom"}, ignores : RunIgnores,
     cfg : RunConfigs, target : RunTargets]

LintIdle ==
    /\ entry = "none" /\ options = NoOptions /\ modLoads = "ok"
    /\ cfgParses = TRUE /\ ignoreFile = NoIgnoreFile
    /\ optConfig = "undefined" /\ optReporter = "undefined"
    /\ heap = EmptyHeap /\ cfgSnap0 = Snap(EmptyHeap, "undefined")
    /\ lintIdx = 1 /\ results = <<>> /\ data = <<>> /\ engineCalls = <<>>
    /\ mutated = FALSE /\ readFailedAt = 0 /\ reporterCalls = <<>>
    /\ runResult = "none" /\ flushed = "none" /\ exitCode = -1
    /\ loadFailed = FALSE

\* interpret(args) at its first statement, or run(opts) at its first.
InitRun ==
    \E v \in Invocations :
        /\ entry = v.entry /\ options = v.options /\ modLoads = v.modLoads
        /\ cfgParses = v.cfgParses /\ ignoreFile = v.ignoreFile
        /\ optConfig = v.cfg.ref /\ heap = v.cfg.heap
        /\ cfgSnap0 = Snap(v.cfg.heap, v.cfg.ref)
        /\ optReporter = v.reporter /\ optIgnores = v.ignores
        /\ optArgs = v.target.args /\ optExt = v.target.ext
        /\ pc = IF v.entry = "interpret" THEN "interpret"
                ELSE RunStart(v.target.args)
        /\ cStack = <<>> /\ cTarget = 1 /\ files = <<>> /\ fileTarget = <<>>
        /\ visited = {} /\ listed = {}
        /\ lintIdx = 1 /\ results = <<>> /\ data = <<>> /\ engineCalls = <<>>
        /\ mutated = FALSE /\ readFailedAt = 0 /\ reporterCalls = <<>>
        /\ runResult = "none" /\ flushed = "none" /\ exitCode = -1
        /\ loadFailed = FALSE

(***************************************************************************)
(* Specifications                                                          *)
(***************************************************************************)

NextStrip ==
    \/ StripOnce /\ UNCHANGED <<findVars, ignVars, runVars>>
    \/ StripTwice /\ UNCHANGED <<findVars, ignVars, runVars>>

StartStrip == InitStrip /\ FindIdle /\ IgnIdle /\ RunIdle /\ LintIdle

SpecStrip == StartStrip /\ [][NextStrip]_vars

NextFind ==
    \/ FindFileCall /\ UNCHANGED <<stripVars, ignVars, runVars>>
    \/ FindConfigReturn /\ UNCHANGED <<stripVars, ignVars, runVars>>

StartFind == InitFind /\ StripIdle /\ IgnIdle /\ RunIdle /\ LintIdle

SpecFind == StartFind /\ [][NextFind]_vars

NextIgn == IsIgnoredCall /\ UNCHANGED <<stripVars, findVars, runVars>>

StartIgn == InitIgn /\ StripIdle /\ FindIdle /\ RunIdle /\ LintIdle

SpecIgn == StartIgn /\ [][NextIgn]_vars

OtherIdle == StripIdle /\ FindIdle /\ IgnIdle
otherVars == <<stripVars, findVars, ignVars>>

NextCollect == CollectCall /\ UNCHANGED otherVars

StartCollect == InitCollect /\ LintIdle /\ OtherIdle

SpecCollect == StartCollect /\ [][NextCollect]_vars

Next ==
    \/ Interpret /\ UNCHANGED otherVars
    \/ CollectCall /\ UNCHANGED otherVars
    \/ Lint /\ UNCHANGED otherVars
    \/ Report /\ UNCHANGED otherVars
    \/ Flush /\ UNCHANGED otherVars
    \/ Drain /\ UNCHANGED otherVars

Init == InitRun /\ OtherIdle

Spec == Init /\ [][Next]_vars

(***************************************************************************)
(* Claims                                                                  *)
(***************************************************************************)

\* C10: comment stripping is idempotent: for every input s,
\* removeComments(removeComments(s)) = removeComments(s).
C10_StripIdempotent == rcPc = "twice" => rcTwice = rcOnce

\* C1 as stated: interpret exits with 0 iff run finished without findings,
\* with 2 iff it finished with findings, and with 1 for a fatal error: an
\* unreadable file, a reporter that cannot be loaded, or a flush that throws.
C1_AsStated ==
    pc = "exited" =>
        /\ (exitCode = 0) <=> (runResult = "true" /\ results = <<>>)
        /\ (exitCode = 2) <=> (runResult = "false" /\ results # <<>>)
        /\ (readFailedAt # 0 \/ loadFailed \/ flushed = "throw") => exitCode = 1

\* C1 as amended: the process exits with 0 iff run finished without findings,
\* with 2 iff run finished with findings, and with 1 iff a file could not be
\* read or the reporter module could not be loaded; a flush that throws is
\* caught and the exit status is still the one of the findings, 0 or 2.
C1_ExitStatus ==
    pc = "exited" =>
        /\ exitCode \in {0, 1, 2}
        /\ (exitCode = 0) <=> (runResult = "true" /\ results = <<>>)
        /\ (exitCode = 2) <=> (runResult = "false" /\ results # <<>>)
        /\ (exitCode = 1) <=> (readFailedAt # 0 \/ loadFailed)
        /\ flushed = "throw" => exitCode \in {0, 2} /\ runResult # "none"

\* The flush threw after a run with findings.
C1_Witness ==
    /\ pc = "exited"
    /\ flushed = "throw"
    /\ results # <<>>
    /\ exitCode = 2

\* C2: in a run that no fatal error ends, the reporter (opts.reporter when
\* given, else the default one) is called exactly once, after collect has
\* finished for every target and lint for every collected file, with the
\* complete results and data; it is never called while a file is unprocessed.
C2_ReporterOnce ==
    /\ Len(reporterCalls) <= 1
    /\ \A i \in 1..Len(reporterCalls) :
          LET c == reporterCalls[i]
          IN  /\ c.unlinted = 0
              /\ ~c.pending
              /\ ~CollectPending
              /\ Len(engineCalls) = Len(files)
              /\ c.results = results
              /\ c.data = data
              /\ c.fn = IF optReporter \in {"undefined", "null"} THEN "default"
                        ELSE optReporter
    /\ pc \in {"interpret", "collect", "lint", "report"} => reporterCalls = <<>>
    /\ ( \/ pc \in {"flush", "draining", "returned"}
         \/ pc = "exited" /\ readFailedAt = 0 /\ ~loadFailed )
          => Len(reporterCalls) = 1

\* A custom reporter was called after two or more files, with findings.
C2_Witness ==
    /\ Len(reporterCalls) = 1
    /\ Len(files) >= 2
    /\ reporterCalls[1].results # <<>>
    /\ reporterCalls[1].data # <<>>
    /\ reporterCalls[1].fn # "default"

\* C3: when a collected file cannot be read, the run ends at once with exit
\* status 1: the engine is not called for that file or a later one, the
\* reporter is never called, and run returns nothing.
C3_ReadFailureAborts ==
    readFailedAt # 0 =>
        /\ pc = "exited"
        /\ exitCode = 1
        /\ Len(engineCalls) = readFailedAt - 1
        /\ \A i \in 1..Len(engineCalls) : engineCalls[i].file = files[i]
        /\ reporterCalls = <<>>
        /\ runResult = "none"
        /\ flushed = "none"

\* The second of three files could not be read, after findings in the first.
C3_Witness ==
    /\ readFailedAt = 2
    /\ Len(files) = 3
    /\ results # <<>>

\* C4: when the configuration has the key globals, whatever its value, the
\* configuration the engine gets has no such key and the value is its third
\* argument.
C4_GlobalsRemoved ==
    \A i \in 1..Len(engineCalls) :
        \A e \in cfgSnap0 :
            e[1] = "globals" =>
                /\ \A f \in engineCalls[i].config : f[1] # "globals"
                /\ engineCalls[i].globals = e[2]

\* C5: lint never changes the configuration it is given: whatever the engine
\* does to the configuration and the globals it gets, opts.config is what it
\* was before the first call, and every call of the engine gets the same
\* configuration and globals.
C5_ConfigUnchanged ==
    /\ Snap(heap, optConfig) = cfgSnap0
    /\ \A i \in 1..Len(engineCalls) :
          /\ engineCalls[i].config = engineCalls[1].config
          /\ engineCalls[i].globals = engineCalls[1].globals

\* Two files were linted with a configuration that has a globals object, and
\* the engine changed what it was given.
C5_Witness ==
    /\ Len(engineCalls) >= 2
    /\ mutated
    /\ \E e \in cfgSnap0 : e[1] = "globals" /\ e[2][1] = "object"
    /\ engineCalls[2].globals[1] = "object"

\* The nearest directory among cwd and all its ancestors that holds .jshintrc.
NearestRc ==
    LET has == Prefixes(ffCwd) \cap ffHasRc
    IN  CHOOSE d \in has : \A e \in has : Len(e) <= Len(d)

\* C6: findConfig returns the .jshintrc of the nearest directory among the
\* working directory and all of its ancestors that has one; when none has, the
\* home directory's if it exists; and null only when neither exists.
C6_NearestAncestor ==
    ffPc = "done" =>
        ffResult = IF Prefixes(ffCwd) \cap ffHasRc # {} THEN RcPath(NearestRc)
                   ELSE IF ffHome \in ffHasRc THEN RcPath(ffHome)
                   ELSE Null

IsProperPrefix(d, e) == Len(d) < Len(e) /\ SubSeq(e, 1, Len(d)) = d

\* C9: the upward search terminates: findFile is called at most once per level
\* of the starting directory (and once at the root), every recursive call is on
\* a proper ancestor of the directory before, the search goes on until it finds
\* the file or the parent is the directory itself, and findConfig returns null
\* when no directory on the way and not the home directory has the file.
C9_FindFileTerminates ==
    /\ Len(ffTrail) <= Len(ffCwd) + 1
    /\ \A i \in 2..Len(ffTrail) : IsProperPrefix(ffTrail[i], ffTrail[i - 1])
    /\ ffPc # "done" => ENABLED NextFind
    /\ ffPc # "findFile" /\ ffProj = Null =>
            ParentOf(ffTrail[Len(ffTrail)]) = ffTrail[Len(ffTrail)]
    /\ ( /\ ffPc = "done"
         /\ \A i \in 1..Len(ffTrail) : ~RcExists(ffTrail[i])
         /\ ~RcExists(ffHome) ) => ffResult = Null

\* A search from a nested directory that found nothing anywhere.
C9_Witness ==
    /\ ffPc = "done"
    /\ Len(ffCwd) >= 3
    /\ Len(ffTrail) >= 2
    /\ ffResult = Null

IsPrefixOf(p, s) == Len(p) <= Len(s) /\ SubSeq(s, 1, Len(p)) = p

\* The three cases as the claim C7 states them, (c) on the absolute form of the
\* path with the pattern as a literal prefix.
ClaimedIgnoredBy(fp, ip, isDir, cwd) ==
    \/ Minimatch(fp, ip)
    \/ PathResolve(cwd, fp) = ip
    \/ isDir /\ NoSeparator(ip) /\ IsPrefixOf(ip, PathResolve(cwd, fp))

Reverse(s) == [i \in 1..Len(s) |-> s[Len(s) + 1 - i]]

HitBy(fp, ip, isDir, cwd) ==
    \/ Minimatch(fp, ip)
    \/ PathResolve(cwd, fp) = ip
    \/ isDir /\ NoSeparator(ip) /\ RegExpValid(ip) /\ RegExpFrom(ip, 1, fp, 1)

\* The pattern reaches the third case and is no regular expression.
ThrowsOn(fp, ip, isDir, cwd) ==
    /\ ~Minimatch(fp, ip)
    /\ PathResolve(cwd, fp) # ip
    /\ isDir /\ NoSeparator(ip) /\ ~RegExpValid(ip)

Under(f, p) ==
    LET a == PathResolve(W, f)
        b == PathResolve(W, p)
    IN  a = b \/ IsPrefixOf(Append(b, "/"), a)

IgnoredPath(fp) ==
    optIgnores.defined /\ isIgnored(fp, optIgnores.list, IsDir(fp), W) = "true"

\* C8: collect prunes ignored subtrees: a path for which isIgnored holds is not
\* listed, neither it nor a file below it is appended by the traversal that
\* reached it, and nothing below it is visited by that traversal; without an
\* ignore list (undefined) nothing is pruned and nothing is thrown: every file
\* of the right extension under a target is collected, once.
C8_CollectPrunes ==
    /\ \A v \in visited : IgnoredPath(v.fp) =>
            /\ v \notin listed
            /\ \A i \in 1..Len(files) :
                   fileTarget[i] = v.t => ~Under(files[i], v.fp)
            /\ \A w \in visited : (w.t = v.t /\ w # v) => ~Under(w.fp, v.fp)
            /\ \A i \in 1..Len(cStack) :
                   cStack[i].t = v.t => ~Under(cStack[i].fp, v.fp)
    /\ ~optIgnores.defined =>
            /\ pc # "uncaught"
            /\ pc # "collect" =>
                  \A t \in 1..Len(optArgs) :
                      LET got == {i \in 1..Len(files) : fileTarget[i] = t}
                          want == {f \in FsFiles : /\ ExtMatch(f, optExt)
                                                    /\ Under(f, optArgs[t])}
                      IN  /\ {PathResolve(W, files[i]) : i \in got} = want
                          /\ Cardinality(got) = Cardinality(want)

\* The traversal met an ignored directory that holds a file which is of the
\* right extension and not ignored itself, and collected another file.
C8_Witness ==
    /\ pc \notin {"collect", "uncaught"}
    /\ files # <<>>
    /\ \E v \in visited :
          /\ IgnoredPath(v.fp)
          /\ IsDir(v.fp)
          /\ \E i \in 1..Len(Ls(v.fp)) :
                LET child == PathJoin(v.fp, Ls(v.fp)[i])
                IN  ~IsDir(child) /\ ExtMatch(child, optExt) /\ ~IgnoredPath(child)

====
